---- MODULE Spec2Model ----
(***************************************************************************)
(* One invocation of bin/tg_tools.py: main() dispatches to one of the four *)
(* command coroutines (login, dialogs, tail, search), each of which builds *)
(* a client with get_client() and drives the Telethon client.  The client  *)
(* library is the environment: the value a call returns, or the exception  *)
(* it raises, is chosen nondeterministically at the call.                  *)
(***************************************************************************)
EXTENDS Integers, Sequences, FiniteSets, TLC

\* ------------------------------------------------------------------ bounds
MaxLimit == 3       \* --limit ranges over 0..MaxLimit
MaxDialogs == 3     \* conversations the service holds
MaxDate == 3        \* message dates are 1..MaxDate (a total order of instants)
MaxResults == 2     \* messages the service matches for a search

\* ------------------------------------------------------- Python values
\* Python's None among optional strings (kept a string so that every value
\* of a field has one type); no argument or service text equals it.
None == "<None>"

\* bool(v) of an optional string: None and "" are falsy.
Truthy(v) == v # None /\ v # ""

\* a or b
PyOr(a, b) == IF Truthy(a) THEN a ELSE b

\* The text an f-string renders for an optional string.
Str(v) == IF v = None THEN "None" ELSE v

Min(a, b) == IF a <= b THEN a ELSE b

UpperAlpha == "ABCDEFGHIJKLMNOPQRSTUVWXYZ"
LowerAlpha == "abcdefghijklmnopqrstuvwxyz"
Digits == "0123456789"

Char(s, i) == SubSeq(s, i, i)

LowerChar(c) ==
  IF \E i \in 1..Len(UpperAlpha) : Char(UpperAlpha, i) = c
  THEN Char(LowerAlpha, CHOOSE i \in 1..Len(UpperAlpha) : Char(UpperAlpha, i) = c)
  ELSE c

RECURSIVE Lower(_)
\* str.lower()
Lower(s) == IF s = "" THEN "" ELSE LowerChar(Char(s, 1)) \o Lower(SubSeq(s, 2, Len(s)))

\* needle in hay
Contains(needle, hay) ==
  \E i \in 1..(Len(hay) - Len(needle) + 1) : SubSeq(hay, i, i + Len(needle) - 1) = needle

RECURSIVE ReplaceNewlines(_)
\* s.replace("\n", " ")
ReplaceNewlines(s) ==
  IF s = "" THEN ""
  ELSE (IF Char(s, 1) = "\n" THEN " " ELSE Char(s, 1)) \o ReplaceNewlines(SubSeq(s, 2, Len(s)))

IsSpace(c) == c \in {" ", "\n", "\t"}

RECURSIVE LStrip(_)
LStrip(s) == IF s # "" /\ IsSpace(Char(s, 1)) THEN LStrip(SubSeq(s, 2, Len(s))) ELSE s

RECURSIVE RStrip(_)
RStrip(s) == IF s # "" /\ IsSpace(Char(s, Len(s))) THEN RStrip(SubSeq(s, 1, Len(s) - 1)) ELSE s

\* str.strip()
Strip(s) == LStrip(RStrip(s))

IsDigit(c) == \E i \in 1..Len(Digits) : Char(Digits, i) = c

\* int(s) raises ValueError unless s is an optionally signed run of digits
\* (surrounding whitespace allowed).
IntRaises(s) ==
  LET t == Strip(s)
      u == IF t # "" /\ Char(t, 1) \in {"+", "-"} THEN SubSeq(t, 2, Len(t)) ELSE t
  IN  u = "" \/ \E i \in 1..Len(u) : ~IsDigit(Char(u, i))

RECURSIVE NatToStr(_)
NatToStr(n) == IF n < 10 THEN Char(Digits, n + 1) ELSE NatToStr(n \div 10) \o Char(Digits, (n % 10) + 1)

\* str(n) of an int
IntToStr(n) == IF n < 0 THEN "-" \o NatToStr(-n) ELSE NatToStr(n)

\* ------------------------------------------------------------ input sets
Commands == {"login", "dialogs", "tail", "search"}
ApiIds == {None, "", "12345", "abc"}
ApiHashes == {None, "", "0123abcd"}
Phones == {None, "", "+15551234567"}
CodeInputs == {"12345", " 12345 "}
PwdInputs == {"hunter2", ""}

\* str(e) of the exceptions sign_in raises
ErrMsgs == { "Two-steps verification is enabled and a password is required (caused by SignInRequest)",
             "PASSWORD_HASH_INVALID",
             "The phone code entered was invalid (caused by SignInRequest)",
             "The confirmation code has expired (caused by SignInRequest)",
             "" }

Usernames == {None, "", "alice"}
FirstNames == {None, "", "Alice"}
DialogTitles == <<"A", "B", "C">>
TitleOf(id) == IF id \in 1..Len(DialogTitles) THEN DialogTitles[id] ELSE "T" \o IntToStr(id)
Bodies == {None, "", "line1\nline2"}
ChatIds == {42, -1001}

VARIABLES
  cmd,        \* args.cmd
  phone,      \* args.phone (None when --phone is not given)
  limit,      \* args.limit
  api_id,     \* os.environ.get("TG_API_ID")
  api_hash,   \* os.environ.get("TG_API_HASH")
  pc,         \* the statement the coroutine is at
  client,     \* TRUE once TelegramClient(...) has been constructed
  opens,      \* connections opened (connect / __aenter__)
  closes,     \* connections released (disconnect / __aexit__)
  trace,      \* the client calls, prompts and prints made, in order
  out,        \* the lines printed to standard output
  status,     \* "running", "exit0", "sysexit" (SystemExit with a message), "raised"
  exitcode,   \* the process's exit status (-1 while running)
  loc         \* the coroutine's local variables

vars == <<cmd, phone, limit, api_id, api_hash, pc, client, opens, closes, trace, out,
          status, exitcode, loc>>

args == <<cmd, phone, limit, api_id, api_hash>>

Op(name, a) == [op |-> name, args |-> a]

NoLocals == [is_auth |-> "unset", code |-> None, e |-> None, pwd |-> None,
             avail |-> <<>>, dialogs |-> <<>>, msgs |-> <<>>, i |-> 0,
             ent |-> [title |-> None, username |-> None, first_name |-> None],
             title |-> None, chat_id |-> 0, c |-> "unset", pending |-> FALSE]

\* argparse gives args.phone to login only and args.limit to the other three
\* commands; the attribute a command does not have is held at None / 0.
Init ==
  /\ cmd \in Commands
  /\ phone \in (IF cmd = "login" THEN Phones ELSE {None})
  /\ limit \in (IF cmd = "login" THEN {0} ELSE 0..MaxLimit)
  /\ api_id \in ApiIds
  /\ api_hash \in ApiHashes
  /\ pc = "main"
  /\ client = FALSE
  /\ opens = 0
  /\ closes = 0
  /\ trace = <<>>
  /\ out = <<>>
  /\ status = "running"
  /\ exitcode = -1
  /\ loc = NoLocals

\* raise SystemExit("...") reaching asyncio.run and main: exit status 1
SysExit ==
  /\ pc' = "exited"
  /\ status' = "sysexit"
  /\ exitcode' = 1

\* an exception nothing catches: traceback, exit status 1
Unhandled ==
  /\ pc' = "exited"
  /\ status' = "raised"
  /\ exitcode' = 1

\* main(): parse_args, then asyncio.run(args.fn(args))
Main ==
  /\ pc = "main"
  /\ pc' = "get_client"
  /\ UNCHANGED <<args, client, opens, closes, trace, out, status, exitcode, loc>>

\* the call is appended to the record of what the process did
Call(name, a) == trace' = Append(trace, Op(name, a))

\* ---------------------------------------------------------- get_client
\* if not api_id or not api_hash
MissingCredentialsOnlyBoth == ~Truthy(api_id) /\ ~Truthy(api_hash)
MissingCredentials == ~Truthy(api_id) \/ ~Truthy(api_hash)

FirstStatement ==
  CASE cmd = "login" -> "login_connect"
    [] cmd = "dialogs" -> "aenter"
    [] cmd = "tail" -> "aenter"
    [] cmd = "search" -> "aenter"

GetClient ==
  /\ pc = "get_client"
  /\ \/ /\ MissingCredentials
        /\ SysExit
        /\ UNCHANGED client
     \/ /\ ~MissingCredentials
        /\ IntRaises(api_id)          \* int(api_id): ValueError
        /\ Unhandled
        /\ UNCHANGED client
     \/ /\ ~MissingCredentials
        /\ ~IntRaises(api_id)
        /\ client' = TRUE
        /\ pc' = FirstStatement
        /\ UNCHANGED <<status, exitcode>>
  /\ UNCHANGED <<args, opens, closes, trace, out, loc>>

\* -------------------------------------------------------------- cmd_login
\* await client.connect()
LoginConnect ==
  /\ pc = "login_connect"
  /\ Call("connect", <<>>)
  /\ \/ /\ opens' = opens + 1
        /\ pc' = "login_is_user_authorized"
        /\ UNCHANGED <<status, exitcode>>
     \/ /\ Unhandled
        /\ UNCHANGED opens
  /\ UNCHANGED <<args, client, closes, out, loc>>

\* if not args.phone
NeedsPhoneNever == FALSE
NeedsPhone == ~Truthy(phone)

\* the branch lines 41-44 take on the answer of is_user_authorized()
LoginBranchPhoneFirst(auth) ==
  IF NeedsPhone THEN "usage_error"
  ELSE IF auth THEN "login_get_me" ELSE "login_send_code_request"
LoginBranch(auth) ==
  IF auth THEN "login_get_me"
  ELSE IF NeedsPhone THEN "usage_error" ELSE "login_send_code_request"

LoginIsUserAuthorized ==
  /\ pc = "login_is_user_authorized"
  /\ Call("is_user_authorized", <<>>)
  /\ \/ \E auth \in BOOLEAN :
          /\ loc' = [loc EXCEPT !.is_auth = IF auth THEN "yes" ELSE "no"]
          /\ IF LoginBranch(auth) = "usage_error"
             THEN SysExit
             ELSE pc' = LoginBranch(auth) /\ UNCHANGED <<status, exitcode>>
     \/ /\ Unhandled
        /\ UNCHANGED loc
  /\ UNCHANGED <<args, client, opens, closes, out>>

\* await client.send_code_request(args.phone)
LoginSendCodeRequest ==
  /\ pc = "login_send_code_request"
  /\ Call("send_code_request", <<phone>>)
  /\ \/ pc' = "login_input_code" /\ UNCHANGED <<status, exitcode>>
     \/ Unhandled
  /\ UNCHANGED <<args, client, opens, closes, out, loc>>

\* code = input("Enter the Telegram login code you received: ").strip()
LoginInputCode ==
  /\ pc = "login_input_code"
  /\ \E typed \in CodeInputs :
       /\ Call("input_code", <<typed>>)
       /\ loc' = [loc EXCEPT !.code = Strip(typed)]
  /\ pc' = "login_sign_in"
  /\ UNCHANGED <<args, client, opens, closes, out, status, exitcode>>

\* "password" in str(e).lower()
RequiresSecondFactorCaseSensitive(e) == Contains("password", e)
RequiresSecondFactor(e) == Contains("password", Lower(e))

\* try: await client.sign_in(args.phone, code) / except Exception as e
LoginSignIn ==
  /\ pc = "login_sign_in"
  /\ Call("sign_in", <<phone, loc.code>>)
  /\ \/ /\ pc' = "login_get_me"
        /\ UNCHANGED <<status, exitcode, loc>>
     \/ \E e \in ErrMsgs :
          /\ loc' = [loc EXCEPT !.e = e]
          /\ IF RequiresSecondFactor(e)
             THEN pc' = "login_input_pwd" /\ UNCHANGED <<status, exitcode>>
             ELSE Unhandled                      \* raise
  /\ UNCHANGED <<args, client, opens, closes, out>>

\* pwd = input("Enter your Telegram 2FA password: ")
LoginInputPwd ==
  /\ pc = "login_input_pwd"
  /\ \E typed \in PwdInputs :
       /\ Call("input_pwd", <<typed>>)
       /\ loc' = [loc EXCEPT !.pwd = typed]
  /\ pc' = "login_sign_in_password"
  /\ UNCHANGED <<args, client, opens, closes, out, status, exitcode>>

\* await client.sign_in(password=pwd), inside the except clause: a failure
\* of this call is not caught
LoginSignInPasswordRetrying ==
  /\ pc = "login_sign_in_password"
  /\ Call("sign_in_password", <<loc.pwd>>)
  /\ \/ pc' = "login_get_me"
     \/ pc' = "login_input_pwd"
  /\ UNCHANGED <<args, client, opens, closes, out, status, exitcode, loc>>
LoginSignInPassword ==
  /\ pc = "login_sign_in_password"
  /\ Call("sign_in_password", <<loc.pwd>>)
  /\ \/ pc' = "login_get_me" /\ UNCHANGED <<status, exitcode>>
     \/ Unhandled
  /\ UNCHANGED <<args, client, opens, closes, out, loc>>

MeIds == {777}
MeUsernames == {None, "alice"}

\* me = await client.get_me()
\* print(f"Logged in as: {me.id} @{getattr(me, 'username', None)}")
LoginGetMe ==
  /\ pc = "login_get_me"
  /\ \/ \E id \in MeIds, username \in MeUsernames :
          /\ trace' = trace \o <<Op("get_me", <<>>), Op("print", <<>>)>>
          /\ out' = Append(out, [text |-> "Logged in as: " \o IntToStr(id) \o " @" \o Str(username)])
          /\ pc' = "login_disconnect"
          /\ UNCHANGED <<status, exitcode>>
     \/ /\ Call("get_me", <<>>)
        /\ Unhandled
        /\ UNCHANGED out
  /\ UNCHANGED <<args, client, opens, closes, loc>>

\* await client.disconnect(), then the coroutine returns
LoginDisconnect ==
  /\ pc = "login_disconnect"
  /\ Call("disconnect", <<>>)
  /\ \/ /\ closes' = closes + 1
        /\ pc' = "exited"
        /\ status' = "exit0"
        /\ exitcode' = 0
     \/ /\ Unhandled
        /\ UNCHANGED closes
  /\ UNCHANGED <<args, client, opens, out, loc>>

\* ------------------------------------------------- async with client:
\* __aenter__: the connection is opened
AEnter ==
  /\ pc = "aenter"
  /\ Call("connect", <<>>)
  /\ \/ /\ opens' = opens + 1
        /\ pc' = CASE cmd = "dialogs" -> "dialogs_get_dialogs"
                   [] cmd = "tail" -> "tail_get_entity"
                   [] cmd = "search" -> "search_iter"
        /\ UNCHANGED <<status, exitcode>>
     \/ /\ Unhandled
        /\ UNCHANGED opens
  /\ UNCHANGED <<args, client, closes, out, loc>>

\* a call inside the with block raises: the block is left through __aexit__
RaiseInBlock ==
  /\ pc' = "aexit"
  /\ loc' = [loc EXCEPT !.pending = TRUE]

\* __aexit__: the connection is released, then the coroutine returns or the
\* pending exception goes on, uncaught
AExit ==
  /\ pc = "aexit"
  /\ Call("disconnect", <<>>)
  /\ \/ /\ closes' = closes + 1
        /\ pc' = "exited"
        /\ status' = IF loc.pending THEN "raised" ELSE "exit0"
        /\ exitcode' = IF loc.pending THEN 1 ELSE 0
     \/ /\ Unhandled
        /\ UNCHANGED closes
  /\ UNCHANGED <<args, client, opens, out, loc>>

\* ------------------------------------------------------------ cmd_dialogs
\* the conversations the service holds, most recent first: distinct ids
DialogLists ==
  { s \in UNION { [1..n -> 1..MaxDialogs] : n \in 0..MaxDialogs } :
      \A i, j \in DOMAIN s : i # j => s[i] # s[j] }

\* TelegramClient.get_dialogs(limit=n): the first n conversations
GetDialogs(avail, n) == SubSeq(avail, 1, Min(n, Len(avail)))

\* client.get_dialogs(limit=args.limit)
FetchedDialogsUnlimited(avail) == avail
FetchedDialogs(avail) == GetDialogs(avail, limit)

\* the entity a conversation carries; an attribute the entity's type does not
\* have reads as None through getattr(ent, name, None)
Entities(id) == [title : {None, "", TitleOf(id)}, username : Usernames, first_name : FirstNames]

\* getattr(ent, "title", None) or getattr(ent, "username", None) or getattr(ent, "first_name", None)
DialogLabelUsernameFirst(ent) == PyOr(PyOr(ent.username, ent.title), ent.first_name)
DialogLabel(ent) == PyOr(PyOr(ent.title, ent.username), ent.first_name)

DialogsGetDialogs ==
  /\ pc = "dialogs_get_dialogs"
  /\ Call("get_dialogs", <<IntToStr(limit)>>)
  /\ \/ \E avail \in DialogLists :
          /\ loc' = [loc EXCEPT !.avail = avail, !.dialogs = FetchedDialogs(avail), !.i = 1]
          /\ pc' = IF Len(FetchedDialogs(avail)) = 0 THEN "aexit" ELSE "dialogs_for"
     \/ RaiseInBlock
  /\ UNCHANGED <<args, client, opens, closes, out, status, exitcode>>

\* one turn of: for d in dialogs
DialogsFor ==
  /\ pc = "dialogs_for"
  /\ LET d == loc.dialogs[loc.i] IN
     \E ent \in Entities(d) :
       LET title == DialogLabel(ent) IN
       /\ out' = Append(out, [id |-> IntToStr(d), label |-> Str(title)])
       /\ loc' = [loc EXCEPT !.ent = ent, !.title = title, !.i = loc.i + 1]
  /\ Call("print", <<>>)
  /\ pc' = IF loc.i + 1 > Len(loc.dialogs) THEN "aexit" ELSE "dialogs_for"
  /\ UNCHANGED <<args, client, opens, closes, status, exitcode>>

\* --------------------------------------------------------------- cmd_tail
Messages == [date : 1..MaxDate, message : Bodies]

\* what get_messages(entity, limit=n) may hand back: at most n messages
MessageLists(n) == UNION { [1..k -> Messages] : k \in 0..n }

\* reversed(msgs)
ReversedNot(s) == s
Reversed(s) == [k \in 1..Len(s) |-> s[Len(s) + 1 - k]]

\* (m.message or "").replace("\n", " ")
Text(m) == ReplaceNewlines(PyOr(m.message, ""))

\* entity = await client.get_entity(args.chat)
TailGetEntity ==
  /\ pc = "tail_get_entity"
  /\ Call("get_entity", <<>>)
  /\ \/ pc' = "tail_get_messages" /\ UNCHANGED loc
     \/ RaiseInBlock
  /\ UNCHANGED <<args, client, opens, closes, out, status, exitcode>>

\* msgs = await client.get_messages(entity, limit=args.limit)
TailGetMessages ==
  /\ pc = "tail_get_messages"
  /\ Call("get_messages", <<IntToStr(limit)>>)
  /\ \/ \E msgs \in MessageLists(limit) :
          /\ loc' = [loc EXCEPT !.msgs = msgs, !.i = 1]
          /\ pc' = IF Len(msgs) = 0 THEN "aexit" ELSE "tail_for"
     \/ RaiseInBlock
  /\ UNCHANGED <<args, client, opens, closes, out, status, exitcode>>

\* one turn of: for m in reversed(msgs)
TailFor ==
  /\ pc = "tail_for"
  /\ LET m == Reversed(loc.msgs)[loc.i] IN
     out' = Append(out, [date |-> m.date, text |-> Text(m)])
  /\ Call("print", <<>>)
  /\ loc' = [loc EXCEPT !.i = loc.i + 1]
  /\ pc' = IF loc.i + 1 > Len(loc.msgs) THEN "aexit" ELSE "tail_for"
  /\ UNCHANGED <<args, client, opens, closes, status, exitcode>>

\* ------------------------------------------------------------- cmd_search
\* what the search iterator may yield
SearchHits == [chat_id : ChatIds, date : {1}, message : {None, "line1\nline2"}]

ChatTitles == {None, "", "Team"}
Chats == [title : ChatTitles, username : Usernames, first_name : FirstNames]

\* getattr(c, "title", None) or getattr(c, "username", None) or getattr(c, "first_name", None)
\* with c the conversation get_chat() returned, which may be None
ChatLabel(c, ent) ==
  IF c = "none" THEN None ELSE PyOr(PyOr(ent.title, ent.username), ent.first_name)

\* it = client.iter_messages(None, search=args.query, limit=args.limit)
\* async for m in it: the iterator ends, or its fetch raises
SearchEnd ==
  /\ pc = "search_iter"
  /\ Call("iter_end", <<>>)
  /\ \/ pc' = "aexit" /\ UNCHANGED loc
     \/ RaiseInBlock
  /\ UNCHANGED <<args, client, opens, closes, out, status, exitcode>>

\* async for m in it: the iterator yields m; the loop body resolves the
\* conversation (try / except Exception) and prints the line
SearchFor ==
  /\ pc = "search_iter"
  /\ loc.i < Min(limit, MaxResults)
  /\ \E m \in SearchHits, c \in {"raised", "none", "chat"}, ent \in Chats :
       LET chat == IF c = "raised" THEN IntToStr(m.chat_id) ELSE ChatLabel(c, ent) IN
       /\ c # "chat" => ent = NoLocals.ent
       /\ out' = Append(out, [date |-> m.date, chat |-> Str(chat), text |-> Text(m)])
       /\ loc' = [loc EXCEPT !.i = loc.i + 1, !.c = c, !.ent = ent, !.chat_id = m.chat_id,
                             !.title = chat]
  /\ trace' = trace \o <<Op("iter_next", <<>>), Op("get_chat", <<>>), Op("print", <<>>)>>
  /\ pc' = "search_iter"
  /\ UNCHANGED <<args, client, opens, closes, status, exitcode>>

Next ==
  \/ Main
  \/ GetClient
  \/ LoginConnect
  \/ LoginIsUserAuthorized
  \/ LoginSendCodeRequest
  \/ LoginInputCode
  \/ LoginSignIn
  \/ LoginInputPwd
  \/ LoginSignInPassword
  \/ LoginGetMe
  \/ LoginDisconnect
  \/ AEnter
  \/ AExit
  \/ DialogsGetDialogs
  \/ DialogsFor
  \/ TailGetEntity
  \/ TailGetMessages
  \/ TailFor
  \/ SearchEnd
  \/ SearchFor

Spec == Init /\ [][Next]_vars

TypeOK ==
  /\ cmd \in Commands
  /\ status \in {"running", "exit0", "sysexit", "raised"}
  /\ (status = "running") = (pc # "exited")
  /\ opens \in 0..1
  /\ closes \in 0..1

\* ====================================================== the properties
Ops(t) == [k \in 1..Len(t) |-> t[k].op]

Count(name) == Cardinality({k \in DOMAIN trace : trace[k].op = name})

IsPrefix(s, t) == Len(s) <= Len(t) /\ \A k \in 1..Len(s) : s[k] = t[k]

LastOp == IF trace = <<>> THEN "" ELSE trace[Len(trace)].op

\* C1: with TG_API_ID or TG_API_HASH absent or empty, every command aborts
\* in get_client with a non-zero exit: no client handle is constructed and
\* no client call (connect, authorization check, fetch) is ever made.
C1_MissingSecretAborts ==
  (api_id \in {None, ""} \/ api_hash \in {None, ""}) =>
    /\ client = FALSE
    /\ opens = 0
    /\ trace = <<>>
    /\ pc \in {"main", "get_client", "exited"}
    /\ pc = "exited" => (status = "sysexit" /\ exitcode # 0)

C1_Witness ==
  /\ api_id = "12345"
  /\ api_hash = ""
  /\ cmd = "search"
  /\ status = "sysexit"

NonDecreasingDates(lines) ==
  \A i, j \in DOMAIN lines : i < j => lines[i].date <= lines[j].date

NewestFirst(msgs) ==
  \A i, j \in DOMAIN msgs : i < j => msgs[i].date >= msgs[j].date

\* C2 as stated: the lines tail prints are in non-decreasing timestamp
\* order whatever order get_messages returned the messages in.
C2_TailSortedWhateverUpstream ==
  cmd = "tail" => NonDecreasingDates(out)

\* C2 as amended: tail prints the messages get_messages returned in the
\* reverse of the order it returned them, so the lines are in non-decreasing
\* timestamp order whenever the upstream order is newest-first.
C2_TailReversesUpstream ==
  cmd = "tail" =>
    /\ Len(out) <= Len(loc.msgs)
    /\ \A k \in DOMAIN out : out[k].date = loc.msgs[Len(loc.msgs) + 1 - k].date
    /\ status = "exit0" => Len(out) = Len(loc.msgs)
    /\ NewestFirst(loc.msgs) => NonDecreasingDates(out)

C2_Witness ==
  /\ cmd = "tail"
  /\ status = "exit0"
  /\ Len(loc.msgs) = 3
  /\ NewestFirst(loc.msgs)
  /\ loc.msgs[1].date > loc.msgs[3].date
  /\ Len(out) = 3
  /\ out[1].date < out[3].date

\* the conversation of the last result could not be given a label
ResolutionFailed ==
  \/ loc.c \in {"raised", "none"}
  \/ /\ loc.c = "chat"
     /\ loc.ent.title \in {None, ""}
     /\ loc.ent.username \in {None, ""}
     /\ loc.ent.first_name \in {None, ""}

\* C3: a search result whose conversation label cannot be resolved (the
\* lookup raises, or yields no conversation or no usable label) is printed
\* with its raw numeric conversation identifier after "in".
C3_SearchFallbackIsChatId ==
  (cmd = "search" /\ Len(out) > 0 /\ ResolutionFailed) =>
    out[Len(out)].chat = IntToStr(loc.chat_id)

\* C4: a command that got its client opens exactly one connection and has
\* released it when the process ends normally or by this code's own abort.
C4_OneConnectionReleased ==
  (client /\ status \in {"exit0", "sysexit"}) => (opens = 1 /\ closes = 1)

\* C5: login without --phone on an unauthorized session aborts with a usage
\* error (non-zero exit) having made no call but connect and the
\* authorization check: no code request, sign-in, identity fetch or prompt.
C5_LoginWithoutPhoneAborts ==
  (cmd = "login" /\ phone \in {None, ""} /\ loc.is_auth = "no") =>
    /\ status = "sysexit"
    /\ exitcode # 0
    /\ Ops(trace) = <<"connect", "is_user_authorized">>
    /\ out = <<>>

C5_Witness ==
  /\ cmd = "login"
  /\ phone = None
  /\ loc.is_auth = "no"
  /\ status = "sysexit"
  /\ opens = 1

\* the sign-in failure texts that contain "password" in some letter case
PasswordErrMsgs ==
  { "Two-steps verification is enabled and a password is required (caused by SignInRequest)",
    "PASSWORD_HASH_INVALID" }

\* C6: when the first sign-in fails with a message containing "password"
\* (any letter case) the password is prompted for and sign-in is retried
\* with it; on any other failure there is no password prompt, no second
\* sign-in and no identity line, and the failure ends the process uncaught.
C6_SecondFactorOnlyOnPassword ==
  (cmd = "login" /\ loc.e # None) =>
    IF loc.e \in PasswordErrMsgs
    THEN \/ pc = "login_input_pwd" /\ Count("input_pwd") = 0
         \/ /\ Count("input_pwd") = 1
            /\ \E p \in DOMAIN trace :
                 /\ trace[p].op = "input_pwd"
                 /\ \/ pc = "login_sign_in_password"
                    \/ \E q \in DOMAIN trace :
                         /\ q > p
                         /\ trace[q].op = "sign_in_password"
                         /\ trace[q].args = trace[p].args
    ELSE /\ status = "raised"
         /\ LastOp = "sign_in"
         /\ Count("input_pwd") = 0
         /\ Count("sign_in") + Count("sign_in_password") = 1
         /\ Count("get_me") = 0
         /\ out = <<>>

C6_Witness ==
  /\ cmd = "login"
  /\ loc.e = "PASSWORD_HASH_INVALID"
  /\ Count("sign_in_password") = 1
  /\ status = "exit0"

\* C7: dialogs with limit N prints min(N, conversations available) lines,
\* one per conversation and in the order of the listing call.
C7_DialogsCountAndOrder ==
  cmd = "dialogs" =>
    /\ Len(out) <= Min(limit, Len(loc.avail))
    /\ \A k \in DOMAIN out : out[k].id = IntToStr(loc.avail[k])
    /\ status = "exit0" => Len(out) = Min(limit, Len(loc.avail))

C7_Witness ==
  /\ cmd = "dialogs"
  /\ status = "exit0"
  /\ limit = 2
  /\ loc.avail = <<1, 2, 3>>
  /\ out = <<[id |-> "1", label |-> "A"], [id |-> "2", label |-> "B"]>>

\* C8: login on an authorized session makes exactly connect, authorization
\* check, identity fetch, print, disconnect, in that order, with or without
\* --phone: no usage error, code request, prompt or sign-in.
C8_AuthorizedLoginOnlyReports ==
  (cmd = "login" /\ loc.is_auth = "yes") =>
    /\ IsPrefix(Ops(trace), <<"connect", "is_user_authorized", "get_me", "print", "disconnect">>)
    /\ status # "sysexit"
    /\ status = "exit0" =>
         /\ Ops(trace) = <<"connect", "is_user_authorized", "get_me", "print", "disconnect">>
         /\ Len(out) = 1

C8_Witness ==
  /\ cmd = "login"
  /\ phone = None
  /\ loc.is_auth = "yes"
  /\ status = "exit0"

\* label is the first of title, username, first name that is neither None
\* nor empty, and the rendering of first name when none is
IsFirstNonEmpty(label, ent) ==
  LET f == <<ent.title, ent.username, ent.first_name>> IN
  IF \E k \in 1..3 : f[k] \notin {None, ""}
  THEN \E k \in 1..3 : /\ f[k] \notin {None, ""}
                       /\ \A j \in 1..(k - 1) : f[j] \in {None, ""}
                       /\ label = f[k]
  ELSE label = (IF ent.first_name = None THEN "None" ELSE "")

\* C9: the label dialogs prints for a conversation and the label search
\* prints for a resolved conversation are both the first non-empty of title,
\* username, first name: the same function of the three fields.
C9_SameLabelPrecedence ==
  /\ (cmd = "dialogs" /\ Len(out) > 0) => IsFirstNonEmpty(out[Len(out)].label, loc.ent)
  /\ (cmd = "search" /\ Len(out) > 0 /\ loc.c = "chat") => IsFirstNonEmpty(out[Len(out)].chat, loc.ent)

C9_Witness ==
  /\ cmd = "search"
  /\ loc.c = "chat"
  /\ loc.ent = [title |-> "", username |-> "alice", first_name |-> "Alice"]
  /\ Len(out) = 2
  /\ out[2].chat = "alice"

\* C10: one login sends the code request, prompts for the code and prompts
\* for the password at most once each and calls sign-in at most once with
\* the code and at most once with the password; a failed password sign-in
\* ends the process; the whole dialogue is at most ten operations long.
C10_LoginNeverRetries ==
  cmd = "login" =>
    /\ Count("send_code_request") <= 1
    /\ Count("input_code") <= 1
    /\ Count("input_pwd") <= 1
    /\ Count("sign_in") <= 1
    /\ Count("sign_in_password") <= 1
    /\ Count("sign_in_password") = 1 => Count("sign_in") = 1
    /\ Len(trace) <= 10
    /\ (LastOp = "sign_in_password" /\ pc # "login_get_me") => (pc = "exited" /\ status = "raised")

C10_Witness ==
  /\ cmd = "login"
  /\ LastOp = "sign_in_password"
  /\ status = "raised"
  /\ Count("sign_in") = 1

====
